---- MODULE Spec2Model ----
(***************************************************************************)
(* Model of eth-npg's Generator (src/src/lib.rs): a Stream that, at every  *)
(* slot boundary, asks the SlotGenerator for the duties of the current     *)
(* slot, queues one Message per duty and hands the queue out one message   *)
(* per poll_next.                                                          *)
(*                                                                         *)
(* Time is counted in ticks.  One poll_next call is one atomic step: the   *)
(* method takes `Pin<&mut Self>` and contains no await point.  The slot    *)
(* clock, the tokio Sleep and the task's waker are modelled by their       *)
(* interface: the clock's two queries return an Option, a Sleep is ready   *)
(* from its deadline on and wakes the waker registered by its last pending *)
(* poll, and a woken task is polled again by the executor.                 *)
(***************************************************************************)
EXTENDS Integers, Sequences, FiniteSets, TLC

\* ------------------------------------------------------------ bounds
\* Last tick of the modelled wall clock.
MaxTime == 7
\* Ticks per slot (SlotClock::slot_duration).
SlotDuration == 2
\* Most ticks that can pass inside one poll_next between the clock's two queries.
MaxElapsed == 1

MaxSlot == MaxTime \div SlotDuration

\* Option::None of the slot clock's queries.
None == -1

VARIABLES
    time,             \* wall clock, in ticks
    validators,       \* Generator.validators
    slot_generator,   \* Generator.slot_generator: the duties of every slot
    queued_messages,  \* Generator.queued_messages
    next_slot,        \* Generator.next_slot: the Sleep armed for the next boundary
    woken,            \* the consumer task has a pending wake-up
    ret,              \* what the last poll_next returned to its caller
    calls,            \* the collaborator calls the last poll_next made, in order
    resolved,         \* history: the slots resolved so far and when
    emitted,          \* history: the messages returned since the last resolution
    invocations,      \* history: SlotGenerator queries made so far, per MsgType
    since             \* the last time_since_last_slot call: what the clock said, what it returned

vars == <<time, validators, slot_generator, queued_messages, next_slot, woken,
          ret, calls, resolved, emitted, invocations, since>>

\* ------------------------------------------------------------ data model
\* Faulty variant of MsgTypeIter: Attestation declared before AggregateAndProofAttestation.
MsgTypeIterSwapped ==
    << "BeaconBlock", "Attestation", "AggregateAndProofAttestation",
       "SignedContributionAndProof", "SyncCommitteeMessage" >>

\* enum MsgType, in declaration order: what MsgType::iter() yields.
MsgTypeIter ==
    << "BeaconBlock", "AggregateAndProofAttestation", "Attestation",
       "SignedContributionAndProof", "SyncCommitteeMessage" >>

MsgType == { MsgTypeIter[i] : i \in 1..Len(MsgTypeIter) }

\* enum Message: one constructor per variant.
BeaconBlock(proposer, slot) ==
    [type |-> "BeaconBlock", proposer |-> proposer, slot |-> slot]

AggregateAndProofAttestation(aggregator, subnet, slot) ==
    [type |-> "AggregateAndProofAttestation", aggregator |-> aggregator,
     subnet |-> subnet, slot |-> slot]

Attestation(attester, subnet, slot) ==
    [type |-> "Attestation", attester |-> attester, subnet |-> subnet, slot |-> slot]

SignedContributionAndProof(validator, subnet, slot) ==
    [type |-> "SignedContributionAndProof", validator |-> validator,
     subnet |-> subnet, slot |-> slot]

SyncCommitteeMessage(validator, subnet, slot) ==
    [type |-> "SyncCommitteeMessage", validator |-> validator,
     subnet |-> subnet, slot |-> slot]

\* ------------------------------------------------------------ SlotGenerator
\* The duties one slot can have: per duty kind an ordered list, of validators
\* for blocks and of (validator, subnet) pairs for the other four.
EmptyDuties ==
    [blocks |-> << >>, aggregates |-> << >>, attestations |-> << >>,
     sync_aggregates |-> << >>, sync_messages |-> << >>]

ScenarioDuties ==
    [blocks |-> << "A" >>, aggregates |-> << >>,
     attestations |-> << <<"A", 3>>, <<"B", 7>> >>,
     sync_aggregates |-> << >>, sync_messages |-> << >>]

FullDuties ==
    [blocks |-> << "B" >>, aggregates |-> << <<"B", 1>> >>,
     attestations |-> << <<"B", 1>>, <<"A", 2>> >>,
     sync_aggregates |-> << <<"A", 0>> >>,
     sync_messages |-> << <<"A", 0>>, <<"B", 0>> >>]

DutyProfiles == { EmptyDuties, ScenarioDuties, FullDuties }

Duties(slot) ==
    IF slot \in DOMAIN slot_generator THEN slot_generator[slot] ELSE EmptyDuties

\* The five queries: pure functions of (slot, validators), each an ordered list.
GetBlocks(slot, vals) ==
    SelectSeq(Duties(slot).blocks, LAMBDA v : v \in vals)

GetAggregates(slot, vals) ==
    SelectSeq(Duties(slot).aggregates, LAMBDA a : a[1] \in vals)

GetAttestations(slot, vals) ==
    SelectSeq(Duties(slot).attestations, LAMBDA a : a[1] \in vals)

GetSyncCommitteeAggregates(slot, vals) ==
    SelectSeq(Duties(slot).sync_aggregates, LAMBDA a : a[1] \in vals)

GetSyncCommitteeMessages(slot, vals) ==
    SelectSeq(Duties(slot).sync_messages, LAMBDA a : a[1] \in vals)

\* ------------------------------------------------------------ SlotClock
\* The slot containing tick t, and the ticks from t to the next boundary
\* (a full slot when t is a boundary).
SlotOf(t) == t \div SlotDuration

DurationToNextSlot(t) == SlotDuration - (t % SlotDuration)

\* ------------------------------------------------------------ Sleep
\* sleep(duration) called at tick t: no waker is registered until it is polled.
Sleep(t, duration) == [deadline |-> t + duration, waker |-> FALSE]

IsReady(sleep, t) == t >= sleep.deadline

\* ------------------------------------------------------------ queue_slot_msgs
\* Faulty variant of SlotMsgs: the sync committee arm builds the contribution variant.
SlotMsgsWrongVariant(msg_type, current_slot) ==
    CASE msg_type = "BeaconBlock" ->
           LET out == GetBlocks(current_slot, validators)
           IN  [i \in 1..Len(out) |-> BeaconBlock(out[i], current_slot)]
      [] msg_type = "AggregateAndProofAttestation" ->
           LET out == GetAggregates(current_slot, validators)
           IN  [i \in 1..Len(out) |-> AggregateAndProofAttestation(out[i][1], out[i][2], current_slot)]
      [] msg_type = "Attestation" ->
           LET out == GetAttestations(current_slot, validators)
           IN  [i \in 1..Len(out) |-> Attestation(out[i][1], out[i][2], current_slot)]
      [] msg_type = "SignedContributionAndProof" ->
           LET out == GetSyncCommitteeAggregates(current_slot, validators)
           IN  [i \in 1..Len(out) |-> SignedContributionAndProof(out[i][1], out[i][2], current_slot)]
      [] msg_type = "SyncCommitteeMessage" ->
           LET out == GetSyncCommitteeMessages(current_slot, validators)
           IN  [i \in 1..Len(out) |-> SignedContributionAndProof(out[i][1], out[i][2], current_slot)]

\* One arm of the match: the messages of one kind, in the generator's order,
\* each carrying current_slot.
SlotMsgs(msg_type, current_slot) ==
    CASE msg_type = "BeaconBlock" ->
           LET out == GetBlocks(current_slot, validators)
           IN  [i \in 1..Len(out) |-> BeaconBlock(out[i], current_slot)]
      [] msg_type = "AggregateAndProofAttestation" ->
           LET out == GetAggregates(current_slot, validators)
           IN  [i \in 1..Len(out) |-> AggregateAndProofAttestation(out[i][1], out[i][2], current_slot)]
      [] msg_type = "Attestation" ->
           LET out == GetAttestations(current_slot, validators)
           IN  [i \in 1..Len(out) |-> Attestation(out[i][1], out[i][2], current_slot)]
      [] msg_type = "SignedContributionAndProof" ->
           LET out == GetSyncCommitteeAggregates(current_slot, validators)
           IN  [i \in 1..Len(out) |-> SignedContributionAndProof(out[i][1], out[i][2], current_slot)]
      [] msg_type = "SyncCommitteeMessage" ->
           LET out == GetSyncCommitteeMessages(current_slot, validators)
           IN  [i \in 1..Len(out) |-> SyncCommitteeMessage(out[i][1], out[i][2], current_slot)]

\* Faulty variant of SlotQuery: the generator is handed a part of the validators.
SlotQueryFiltered(msg_type, current_slot) ==
    [op |-> "slot_generator", msg_type |-> msg_type,
     slot |-> current_slot, validators |-> {v \in validators : v = "A"}]

\* The SlotGenerator query that arm makes, as it appears in the call log.
SlotQuery(msg_type, current_slot) ==
    [op |-> "slot_generator", msg_type |-> msg_type,
     slot |-> current_slot, validators |-> validators]

\* Faulty variant of Extend: the generator is queried once per message it returns.
ExtendPerMessage(acc, msg_type, current_slot) ==
    [queue |-> acc.queue \o SlotMsgs(msg_type, current_slot),
     calls |-> acc.calls \o [i \in 1..Len(SlotMsgs(msg_type, current_slot)) |->
                                SlotQuery(msg_type, current_slot)]]

\* One iteration of the loop: query the generator, extend the queue.
Extend(acc, msg_type, current_slot) ==
    [queue |-> acc.queue \o SlotMsgs(msg_type, current_slot),
     calls |-> Append(acc.calls, SlotQuery(msg_type, current_slot))]

\* Faulty variant of ForEachMsgType: the loop ends after the first kind that has messages.
RECURSIVE ForEachMsgTypeUntilSome(_, _, _)
ForEachMsgTypeUntilSome(i, acc, current_slot) ==
    IF i > Len(MsgTypeIter) \/ acc.queue # << >>
    THEN acc
    ELSE ForEachMsgTypeUntilSome(i + 1, Extend(acc, MsgTypeIter[i], current_slot),
                                 current_slot)

RECURSIVE ForEachMsgType(_, _, _)
ForEachMsgType(i, acc, current_slot) ==
    IF i > Len(MsgTypeIter)
    THEN acc
    ELSE ForEachMsgType(i + 1, Extend(acc, MsgTypeIter[i], current_slot), current_slot)

\* Faulty variant of QueueSlotMsgs: the slot's messages replace what was queued.
QueueSlotMsgsReplaces(queue, current_slot) ==
    ForEachMsgType(1, [queue |-> << >>, calls |-> << >>], current_slot)

\* queue_slot_msgs: the queue it leaves and the queries it made.
QueueSlotMsgs(queue, current_slot) ==
    ForEachMsgType(1, [queue |-> queue, calls |-> << >>], current_slot)

\* ------------------------------------------------------------ time_since_last_slot
\* Faulty variant of SaturatingSub: plain subtraction.
WrappingSub(a, b) == a - b

\* Duration::saturating_sub
SaturatingSub(a, b) == IF a >= b THEN a - b ELSE 0

\* Option::unwrap_or
UnwrapOr(option, default) == IF option = None THEN default ELSE option

\* slot_duration().saturating_sub(duration_to_next_slot().unwrap_or(ZERO)),
\* for what duration_to_next_slot() reported.
SinceLastSlot(reported) == SaturatingSub(SlotDuration, UnwrapOr(reported, 0))

NotCalled == [called |-> FALSE]

\* ------------------------------------------------------------ initial state
\* The Sleep the builder arms: for the boundary that follows construction.
InitialSleep(t) == Sleep(t, DurationToNextSlot(t))

Unpolled == [poll |-> "Unpolled"]
Pending == [poll |-> "Pending"]
Panicked == [poll |-> "Panicked"]
Ready(msg) == [poll |-> "Ready", msg |-> msg]

Init ==
    /\ time \in 0..(SlotDuration - 1)
    /\ validators = {"A", "B"}
    /\ slot_generator \in [1..MaxSlot -> DutyProfiles]
    /\ queued_messages = << >>
    /\ next_slot = InitialSleep(time)
    /\ woken = FALSE
    /\ ret = Unpolled
    /\ calls = << >>
    /\ resolved = << >>
    /\ emitted = << >>
    /\ invocations = [k \in MsgType |-> 0]
    /\ since = NotCalled

\* ------------------------------------------------------------ environment
\* A tick of the wall clock.  The timer driver wakes the waker a Sleep holds
\* when its deadline is reached.
Tick ==
    /\ time < MaxTime
    /\ time' = time + 1
    /\ LET fires == next_slot.waker /\ IsReady(next_slot, time + 1)
       IN  /\ woken' = (woken \/ fires)
           /\ next_slot' = IF fires THEN [next_slot EXCEPT !.waker = FALSE]
                                    ELSE next_slot
    /\ UNCHANGED <<validators, slot_generator, queued_messages, ret, calls,
                   resolved, emitted, invocations, since>>

\* ------------------------------------------------------------ poll_next
\* The caller can poll: a panic has unwound it for good.
CanPoll == ret.poll # "Panicked"

\* Faulty variant of PopFront: the newest message is taken.
PopBack(queue) ==
    [msg |-> queue[Len(queue)], rest |-> SubSeq(queue, 1, Len(queue) - 1)]

\* queued_messages.pop_front() on a non-empty queue.
PopFront(queue) == [msg |-> Head(queue), rest |-> Tail(queue)]

\* Faulty variant of PollQueued: the Sleep is polled while a message is returned.
PollQueuedPeeksTimer ==
    /\ CanPoll
    /\ queued_messages # << >>
    /\ queued_messages' = Tail(queued_messages)
    /\ ret' = Ready(Head(queued_messages))
    /\ emitted' = Append(emitted, Head(queued_messages))
    /\ woken' = FALSE
    /\ next_slot' = IF IsReady(next_slot, time) THEN next_slot
                    ELSE [next_slot EXCEPT !.waker = TRUE]
    /\ calls' = << [op |-> "next_slot.poll", ready |-> IsReady(next_slot, time)] >>
    /\ UNCHANGED <<time, validators, slot_generator, resolved, invocations, since>>

\* `if let Some(msg) = self.queued_messages.pop_front() { return Ready(Some(msg)) }`
PollQueued ==
    /\ CanPoll
    /\ queued_messages # << >>
    /\ LET popped == PopFront(queued_messages)
       IN  /\ queued_messages' = popped.rest
           /\ ret' = Ready(popped.msg)
           /\ emitted' = Append(emitted, popped.msg)
    /\ woken' = FALSE
    /\ calls' = << >>
    /\ UNCHANGED <<time, validators, slot_generator, next_slot, resolved, invocations,
                   since>>

\* Faulty variant of FallsThrough: the Sleep is polled whatever the queue holds.
FallsThroughAlways == TRUE

\* pop_front() returned None: poll_next goes on to the Sleep.
FallsThrough == queued_messages = << >>

\* Faulty variant of PollSleeping: an empty queue ends the stream.
PollSleepingEnds ==
    /\ CanPoll
    /\ FallsThrough
    /\ ~IsReady(next_slot, time)
    /\ woken' = FALSE
    /\ ret' = [poll |-> "Ready", msg |-> [type |-> "None"]]
    /\ calls' = << [op |-> "next_slot.poll", ready |-> FALSE] >>
    /\ UNCHANGED <<time, validators, slot_generator, queued_messages, next_slot,
                   resolved, emitted, invocations, since>>

\* Faulty variant of PollSleeping: the Sleep does not keep the caller's waker.
PollSleepingUnregistered ==
    /\ CanPoll
    /\ FallsThrough
    /\ ~IsReady(next_slot, time)
    /\ woken' = FALSE
    /\ ret' = Pending
    /\ calls' = << [op |-> "next_slot.poll", ready |-> FALSE] >>
    /\ UNCHANGED <<time, validators, slot_generator, queued_messages, next_slot,
                   resolved, emitted, invocations, since>>

\* Faulty variant of PollSleeping: a poll that finds the Sleep not ready asks the
\* clock for the slot and wakes its own task.
PollSleepingBusy ==
    /\ CanPoll
    /\ FallsThrough
    /\ ~IsReady(next_slot, time)
    /\ next_slot' = [next_slot EXCEPT !.waker = TRUE]
    /\ woken' = TRUE
    /\ ret' = Pending
    /\ calls' = << [op |-> "next_slot.poll", ready |-> FALSE],
                   [op |-> "now", ret |-> SlotOf(time)],
                   [op |-> "wake_by_ref"] >>
    /\ UNCHANGED <<time, validators, slot_generator, queued_messages, resolved,
                   emitted, invocations, since>>

\* Faulty variant of PollSleeping: every pending poll arms a new Sleep.
PollSleepingRearms ==
    /\ CanPoll
    /\ FallsThrough
    /\ ~IsReady(next_slot, time)
    /\ next_slot' = [Sleep(time, DurationToNextSlot(time)) EXCEPT !.waker = TRUE]
    /\ woken' = FALSE
    /\ ret' = Pending
    /\ calls' = << [op |-> "next_slot.poll", ready |-> FALSE],
                   [op |-> "duration_to_next_slot", ret |-> DurationToNextSlot(time)],
                   [op |-> "sleep", duration |-> DurationToNextSlot(time)] >>
    /\ UNCHANGED <<time, validators, slot_generator, queued_messages, resolved,
                   emitted, invocations, since>>

\* The queue is empty and the Sleep is not ready: it keeps the caller's waker.
PollSleeping ==
    /\ CanPoll
    /\ FallsThrough
    /\ ~IsReady(next_slot, time)
    /\ next_slot' = [next_slot EXCEPT !.waker = TRUE]
    /\ woken' = FALSE
    /\ ret' = Pending
    /\ calls' = << [op |-> "next_slot.poll", ready |-> FALSE] >>
    /\ UNCHANGED <<time, validators, slot_generator, queued_messages, resolved,
                   emitted, invocations, since>>

\* Faulty variant of CurrentSlot: the slot after the last resolved one, counted locally.
CurrentSlotCounted ==
    IF resolved = << >> THEN SlotOf(time) ELSE resolved[Len(resolved)].slot + 1

\* `let current_slot = self.slot_clock.now().unwrap()` when now() is Some.
CurrentSlot == SlotOf(time)

\* Faulty variant of WakeByRef: the task is not woken after a resolution.
WakeByRefMissing == FALSE

\* `cx.waker().wake_by_ref()`: the task is woken.
WakeByRef == TRUE

\* Faulty variant of PollSlot: the Sleep that was found ready is kept, no new one
\* is armed.
PollSlotNoRearm ==
    /\ CanPoll
    /\ FallsThrough
    /\ IsReady(next_slot, time)
    /\ \E elapsed \in 0..MaxElapsed,
          current_slot \in {CurrentSlot} :
       \E queued \in {QueueSlotMsgs(queued_messages, current_slot)} :
         /\ time + elapsed <= MaxTime
         /\ queued_messages' = queued.queue
         /\ time' = time + elapsed
         /\ calls' = << [op |-> "next_slot.poll", ready |-> TRUE],
                        [op |-> "now", ret |-> current_slot] >>
                      \o queued.calls
                      \o << [op |-> "duration_to_next_slot",
                             ret |-> DurationToNextSlot(time + elapsed)],
                            [op |-> "wake_by_ref"] >>
         /\ resolved' = Append(resolved, [slot |-> current_slot, at |-> time])
         /\ invocations' =
              [k \in MsgType |->
                 invocations[k]
                   + Cardinality({i \in DOMAIN queued.calls :
                                    queued.calls[i].msg_type = k})]
    /\ woken' = WakeByRef
    /\ ret' = Pending
    /\ emitted' = << >>
    /\ UNCHANGED <<validators, slot_generator, next_slot, since>>

\* Faulty variant of PollSlot: a resolution that queued messages returns the
\* first of them at once instead of waking the task and returning Pending.
PollSlotReturnsMessage ==
    /\ CanPoll
    /\ FallsThrough
    /\ IsReady(next_slot, time)
    /\ \E elapsed \in 0..MaxElapsed,
          current_slot \in {CurrentSlot} :
       \E queued \in {QueueSlotMsgs(queued_messages, current_slot)} :
         /\ time + elapsed <= MaxTime
         /\ LET duration_to_next_slot == DurationToNextSlot(time + elapsed)
            IN  /\ time' = time + elapsed
                /\ next_slot' = Sleep(time + elapsed, duration_to_next_slot)
                /\ calls' = << [op |-> "next_slot.poll", ready |-> TRUE],
                               [op |-> "now", ret |-> current_slot] >>
                             \o queued.calls
                             \o << [op |-> "duration_to_next_slot",
                                    ret |-> duration_to_next_slot],
                                   [op |-> "sleep", duration |-> duration_to_next_slot],
                                   [op |-> "wake_by_ref"] >>
                /\ resolved' = Append(resolved, [slot |-> current_slot, at |-> time])
                /\ invocations' =
                     [k \in MsgType |->
                        invocations[k]
                          + Cardinality({i \in DOMAIN queued.calls :
                                           queued.calls[i].msg_type = k})]
                /\ IF queued.queue = << >>
                     THEN /\ queued_messages' = queued.queue
                          /\ ret' = Pending
                          /\ emitted' = << >>
                     ELSE /\ queued_messages' = Tail(queued.queue)
                          /\ ret' = Ready(Head(queued.queue))
                          /\ emitted' = << Head(queued.queue) >>
    /\ woken' = WakeByRef
    /\ UNCHANGED <<validators, slot_generator, since>>

\* The Sleep is ready and both clock queries succeed: queue the slot's messages,
\* arm a new Sleep, wake the task and return Pending.
PollSlot ==
    /\ CanPoll
    /\ FallsThrough
    /\ IsReady(next_slot, time)
    /\ \E elapsed \in 0..MaxElapsed,
          current_slot \in {CurrentSlot} :
       \E queued \in {QueueSlotMsgs(queued_messages, current_slot)} :
         /\ time + elapsed <= MaxTime
         /\ LET duration_to_next_slot == DurationToNextSlot(time + elapsed)
            IN  /\ queued_messages' = queued.queue
                /\ time' = time + elapsed
                /\ next_slot' = Sleep(time + elapsed, duration_to_next_slot)
                /\ calls' = << [op |-> "next_slot.poll", ready |-> TRUE],
                               [op |-> "now", ret |-> current_slot] >>
                             \o queued.calls
                             \o << [op |-> "duration_to_next_slot",
                                    ret |-> duration_to_next_slot],
                                   [op |-> "sleep", duration |-> duration_to_next_slot],
                                   [op |-> "wake_by_ref"] >>
                /\ resolved' = Append(resolved, [slot |-> current_slot, at |-> time])
                /\ invocations' =
                     [k \in MsgType |->
                        invocations[k]
                          + Cardinality({i \in DOMAIN queued.calls :
                                           queued.calls[i].msg_type = k})]
    /\ woken' = WakeByRef
    /\ ret' = Pending
    /\ emitted' = << >>
    /\ UNCHANGED <<validators, slot_generator, since>>

\* Faulty variant of PollNowFails: a missing slot is swallowed and the poll retried.
PollNowFailsSwallowed ==
    /\ CanPoll
    /\ FallsThrough
    /\ IsReady(next_slot, time)
    /\ ret' = Pending
    /\ woken' = TRUE
    /\ calls' = << [op |-> "next_slot.poll", ready |-> TRUE],
                   [op |-> "now", ret |-> None] >>
    /\ UNCHANGED <<time, validators, slot_generator, queued_messages, next_slot,
                   resolved, emitted, invocations, since>>

\* The Sleep is ready and now() is None: unwrap() panics before anything is queued.
PollNowFails ==
    /\ CanPoll
    /\ FallsThrough
    /\ IsReady(next_slot, time)
    /\ ret' = Panicked
    /\ woken' = FALSE
    /\ calls' = << [op |-> "next_slot.poll", ready |-> TRUE],
                   [op |-> "now", ret |-> None] >>
    /\ UNCHANGED <<time, validators, slot_generator, queued_messages, next_slot,
                   resolved, emitted, invocations, since>>

\* The Sleep is ready, now() is Some and duration_to_next_slot() is None: the
\* slot's messages are queued, then unwrap() panics before the Sleep is replaced.
PollDurationFails ==
    /\ CanPoll
    /\ FallsThrough
    /\ IsReady(next_slot, time)
    /\ \E elapsed \in 0..MaxElapsed,
          current_slot \in {CurrentSlot} :
       \E queued \in {QueueSlotMsgs(queued_messages, current_slot)} :
         /\ time + elapsed <= MaxTime
         /\ queued_messages' = queued.queue
         /\ time' = time + elapsed
         /\ calls' = << [op |-> "next_slot.poll", ready |-> TRUE],
                        [op |-> "now", ret |-> current_slot] >>
                      \o queued.calls
                      \o << [op |-> "duration_to_next_slot", ret |-> None] >>
         /\ resolved' = Append(resolved, [slot |-> current_slot, at |-> time])
         /\ invocations' =
              [k \in MsgType |->
                 invocations[k]
                   + Cardinality({i \in DOMAIN queued.calls :
                                    queued.calls[i].msg_type = k})]
    /\ ret' = Panicked
    /\ woken' = FALSE
    /\ emitted' = << >>
    /\ UNCHANGED <<validators, slot_generator, next_slot, since>>

\* time_since_last_slot(&self): the clock reports the duration to the next
\* boundary, no duration at all, or more than a slot.
TimeSinceLastSlot ==
    /\ \E reported \in {None, DurationToNextSlot(time), SlotDuration + 1} :
         since' = [called |-> TRUE, reported |-> reported,
                   result |-> SinceLastSlot(reported)]
    /\ UNCHANGED <<time, validators, slot_generator, queued_messages, next_slot,
                   woken, ret, calls, resolved, emitted, invocations>>

PollNext ==
    \/ PollQueued
    \/ PollSleeping
    \/ PollSlot
    \/ PollNowFails
    \/ PollDurationFails

Next == Tick \/ PollNext \/ TimeSinceLastSlot

Spec == Init /\ [][Next]_vars

\* The executor polls a task that was woken; the consumer polls again after a
\* message, and polls a first time.
Runnable == woken \/ ret.poll \in {"Unpolled", "Ready"}

\* The program under its executor: a runnable task is eventually polled.
ExecutorSpec == Spec /\ WF_vars(Runnable /\ PollNext)

\* The same with a wall clock that keeps advancing.
LiveSpec == ExecutorSpec /\ WF_vars(Tick)

\* ------------------------------------------------------------ vocabulary of the properties
\* The five duty kinds, in the order the specification declares them.
DutyKinds ==
    << "BeaconBlock", "AggregateAndProofAttestation", "Attestation",
       "SignedContributionAndProof", "SyncCommitteeMessage" >>

DutyKindSet == { DutyKinds[i] : i \in 1..Len(DutyKinds) }

KindRank(k) == CHOOSE i \in 1..Len(DutyKinds) : DutyKinds[i] = k

Range(seq) == { seq[i] : i \in 1..Len(seq) }

\* The generator's answer for one kind.
ResolverOutput(k, s) ==
    CASE k = "BeaconBlock" -> GetBlocks(s, validators)
      [] k = "AggregateAndProofAttestation" -> GetAggregates(s, validators)
      [] k = "Attestation" -> GetAttestations(s, validators)
      [] k = "SignedContributionAndProof" -> GetSyncCommitteeAggregates(s, validators)
      [] k = "SyncCommitteeMessage" -> GetSyncCommitteeMessages(s, validators)

\* What a message says about its duty: the assignment the generator returned.
Assignment(m) ==
    CASE m.type = "BeaconBlock" -> m.proposer
      [] m.type = "AggregateAndProofAttestation" -> <<m.aggregator, m.subnet>>
      [] m.type = "Attestation" -> <<m.attester, m.subnet>>
      [] m.type = "SignedContributionAndProof" -> <<m.validator, m.subnet>>
      [] m.type = "SyncCommitteeMessage" -> <<m.validator, m.subnet>>

\* The validator a message is about.
Entity(m) ==
    CASE m.type = "BeaconBlock" -> m.proposer
      [] m.type = "AggregateAndProofAttestation" -> m.aggregator
      [] m.type = "Attestation" -> m.attester
      [] m.type = "SignedContributionAndProof" -> m.validator
      [] m.type = "SyncCommitteeMessage" -> m.validator

\* The messages of the last resolution: those returned since, then those queued.
Batch == emitted \o queued_messages

LastResolved == resolved[Len(resolved)]

ResolvedSlots == { resolved[i].slot : i \in 1..Len(resolved) }

\* The generator queries in a call log.
SlotQueries(log) == SelectSeq(log, LAMBDA c : c.op = "slot_generator")

\* The last poll_next found the Sleep ready.
TimerObservedReady ==
    \E i \in 1..Len(calls) : calls[i].op = "next_slot.poll" /\ calls[i].ready

\* The last poll_next read a slot from the clock (it realized a boundary).
RealizedBoundary ==
    \E i \in 1..Len(calls) : calls[i].op = "now" /\ calls[i].ret # None

ObservedSlot ==
    (CHOOSE c \in Range(calls) : c.op = "now").ret

\* ------------------------------------------------------------ C1
\* C1: a poll_next that finds the Sleep ready and reads the slot queries the
\* generator exactly once per duty kind, each time with (that slot, validators);
\* a poll_next that returns a queued message, or finds the Sleep not ready,
\* queries nothing; so over a whole run every kind has been queried exactly
\* once per realized boundary, however many messages and polls there were.
C1_ExactlyOnceResolution ==
    /\ RealizedBoundary =>
         /\ TimerObservedReady
         /\ Len(SlotQueries(calls)) = Len(DutyKinds)
         /\ \A k \in DutyKindSet :
              Cardinality({i \in 1..Len(calls) :
                             /\ calls[i].op = "slot_generator"
                             /\ calls[i].msg_type = k}) = 1
         /\ \A c \in Range(SlotQueries(calls)) :
              c.slot = ObservedSlot /\ c.validators = validators
    /\ ~RealizedBoundary => SlotQueries(calls) = << >>
    /\ ret.poll = "Ready" => calls = << >>
    /\ \A k \in DutyKindSet : invocations[k] = Len(resolved)

\* Two boundaries realized, and three messages of the second already returned.
C1_Witness ==
    /\ Len(resolved) = 2
    /\ Len(emitted) >= 3
    /\ ret.poll = "Ready"
    /\ \A k \in DutyKindSet : invocations[k] = 2

\* ------------------------------------------------------------ C2
\* C2: the messages of one resolution come out grouped by kind in the declared
\* order, and within a kind in the order the generator returned them; for the
\* scenario duties (proposer A, attestations (A,3), (B,7)) the sequence is
\* BeaconBlock A, Attestation A/3, Attestation B/7, the last message of the slot.
C2_FixedOrder ==
    resolved # << >> =>
      LET s == LastResolved.slot
      IN  /\ \A i, j \in 1..Len(Batch) :
                i < j => KindRank(Batch[i].type) <= KindRank(Batch[j].type)
          /\ \A k \in DutyKindSet :
                LET ofKind == SelectSeq(Batch, LAMBDA m : m.type = k)
                IN  [i \in 1..Len(ofKind) |-> Assignment(ofKind[i])]
                      = ResolverOutput(k, s)
          /\ Duties(s) = ScenarioDuties =>
               /\ Batch = << [type |-> "BeaconBlock", proposer |-> "A", slot |-> s],
                             [type |-> "Attestation", attester |-> "A",
                              subnet |-> 3, slot |-> s],
                             [type |-> "Attestation", attester |-> "B",
                              subnet |-> 7, slot |-> s] >>
               /\ (queued_messages = << >> /\ ret.poll = "Ready") =>
                    ret.msg = Attestation("B", 7, s)

\* The scenario slot has been returned in full and the next poll was Pending.
C2_Witness ==
    /\ resolved # << >>
    /\ Duties(LastResolved.slot) = ScenarioDuties
    /\ Len(emitted) = 3
    /\ emitted[3].type = "Attestation" /\ emitted[3].attester = "B"
    /\ ret.poll = "Pending"

C4_NoPartialSlot ==
    RealizedBoundary =>
      /\ ret.poll \in {"Pending", "Panicked"}
      /\ \A k \in DutyKindSet :
           \A a \in Range(ResolverOutput(k, ObservedSlot)) :
             \E m \in Range(queued_messages) :
               m.type = k /\ Assignment(m) = a /\ m.slot = ObservedSlot

\* A boundary with duties of several kinds was realized by the last poll_next.
C4_Witness ==
    /\ RealizedBoundary
    /\ ret.poll = "Pending"
    /\ Duties(ObservedSlot) = FullDuties
    /\ Len(queued_messages) = 7

\* ------------------------------------------------------------ C5
\* C5: every resolved slot is the slot the clock reports at the tick the Sleep
\* was found ready; every message queued or returned carries a resolved slot,
\* so a slot that passed without a resolution has no message, whatever its
\* duties.
SkippedSlots == { s \in 0..SlotOf(time) : s \notin ResolvedSlots }

C5_NoBackfill ==
    /\ \A i \in 1..Len(resolved) : resolved[i].slot = SlotOf(resolved[i].at)
    /\ RealizedBoundary => ObservedSlot = LastResolved.slot
    /\ \A m \in Range(Batch) : m.slot \in ResolvedSlots /\ m.slot \notin SkippedSlots
    /\ ret.poll = "Ready" => ret.msg.slot \notin SkippedSlots

\* Two boundaries passed between two resolutions: a slot with duties was skipped
\* and the messages queued are those of the slot current at the second one.
C5_Witness ==
    /\ Len(resolved) >= 2
    /\ LastResolved.slot >= resolved[Len(resolved) - 1].slot + 2
    /\ Duties(LastResolved.slot - 1) = FullDuties
    /\ queued_messages # << >>

\* ------------------------------------------------------------ C6
\* C6: a poll_next with an empty queue and a ready Sleep either resolves a slot
\* or panics on the clock; a caller left Pending with messages queued always has
\* a wake-up pending; and under the executor alone, with no tick of the clock,
\* a resolution that queued messages leads to a message of that slot being
\* returned.
C6_SelfWake ==
    /\ [](ret.poll = "Pending" /\ queued_messages # << >> => woken)
    /\ [][(FallsThrough /\ IsReady(next_slot, time) /\ PollNext) =>
            (Len(resolved') = Len(resolved) + 1 \/ ret'.poll = "Panicked")]_vars
    /\ \A s \in 0..MaxSlot :
         (/\ RealizedBoundary
          /\ ret.poll = "Pending"
          /\ queued_messages # << >>
          /\ ObservedSlot = s)
           ~> (ret.poll = "Ready" /\ ret.msg.slot = s)

\* The first message of a slot was returned at the tick of its resolution, while
\* the new Sleep holds no waker: only the task's own wake-up brought the poll.
C6_Witness ==
    /\ ret.poll = "Ready"
    /\ Len(emitted) = 1
    /\ resolved # << >>
    /\ ret.msg.slot = LastResolved.slot
    /\ time = LastResolved.at
    /\ ~next_slot.waker
    /\ ~IsReady(next_slot, time)

\* ------------------------------------------------------------ C7
\* C7: a poll_next on a non-empty queue returns the front message, leaves the
\* rest of the queue in order, and touches nothing else: no poll or change of
\* the Sleep, no clock query, no generator query.
C7_FifoDrain ==
    [][(CanPoll /\ queued_messages # << >> /\ PollNext) =>
         /\ ret' = Ready(Head(queued_messages))
         /\ queued_messages' = Tail(queued_messages)
         /\ emitted' = Append(emitted, Head(queued_messages))
         /\ calls' = << >>
         /\ next_slot' = next_slot
         /\ time' = time
         /\ resolved' = resolved
         /\ invocations' = invocations]_vars

\* A message was returned from a queue that holds more, although the Sleep is
\* ready and a later slot has begun.
C7_Witness ==
    /\ ret.poll = "Ready"
    /\ Len(emitted) >= 2
    /\ Len(queued_messages) >= 2
    /\ IsReady(next_slot, time)
    /\ SlotOf(time) > LastResolved.slot
    /\ calls = << >>

\* ------------------------------------------------------------ C8
\* C8: a poll_next in which no clock query failed returns Pending or a Message,
\* never the end of the stream; and with the clock advancing and the task polled
\* whenever it is runnable, one more boundary is resolved (or a clock query
\* fails) from every state that leaves a whole slot before the last tick.
ClockFailed ==
    \E i \in 1..Len(calls) :
      calls[i].op \in {"now", "duration_to_next_slot"} /\ calls[i].ret = None

C8_Infinite ==
    /\ [](/\ ret.poll \in {"Unpolled", "Pending", "Ready", "Panicked"}
          /\ ret.poll = "Ready" => ret.msg.type \in DutyKindSet
          /\ ret.poll = "Panicked" => ClockFailed)
    /\ \A n \in 0..(MaxSlot + 1) :
         (Len(resolved) = n /\ time <= MaxTime - SlotDuration)
           ~> (Len(resolved) > n \/ ret.poll = "Panicked")

\* Three boundaries resolved in a row, each after an idle wait on the Sleep.
C8_Witness ==
    /\ Len(resolved) >= 3
    /\ ret.poll = "Pending"
    /\ RealizedBoundary
    /\ ~ClockFailed

\* ------------------------------------------------------------ C9
\* C9: a clock query that returns None ends the poll_next with a panic: it is
\* the last call made, it was made once, no Sleep is armed and no wake-up is
\* left; from then on no message is returned and nothing of the Generator
\* changes.
C9_ClockFailureTerminal ==
    /\ [](ClockFailed =>
            /\ ret.poll = "Panicked"
            /\ calls[Len(calls)].ret = None
            /\ \A i, j \in 1..Len(calls) :
                 (/\ calls[i].op \in {"now", "duration_to_next_slot"}
                  /\ calls[j].op = calls[i].op) => i = j
            /\ \A i \in 1..Len(calls) : calls[i].op \notin {"sleep", "wake_by_ref"}
            /\ ~woken)
    /\ [](ret.poll = "Panicked" => ClockFailed)
    /\ [][ret.poll = "Panicked" =>
            /\ ret' = ret
            /\ queued_messages' = queued_messages
            /\ emitted' = emitted
            /\ next_slot' = next_slot
            /\ resolved' = resolved
            /\ invocations' = invocations]_vars

\* duration_to_next_slot() failed after the slot's messages were queued, and
\* time has gone on past the next boundary.
C9_Witness ==
    /\ ret.poll = "Panicked"
    /\ queued_messages # << >>
    /\ calls[Len(calls)].op = "duration_to_next_slot"
    /\ time >= LastResolved.at + SlotDuration

\* now() failed on the first ready Sleep: nothing was queued or returned.
C9_WitnessNow ==
    /\ ret.poll = "Panicked"
    /\ calls[Len(calls)].op = "now"
    /\ resolved = << >>

\* ------------------------------------------------------------ C10
\* C10: every queued message carries the slot of the most recent resolution, so
\* the queue never holds messages of two resolutions.
C10_QueueOneSlot ==
    /\ queued_messages # << >> => resolved # << >>
    /\ \A m \in Range(queued_messages) : m.slot = LastResolved.slot
    /\ Cardinality({ m.slot : m \in Range(queued_messages) }) <= 1

\* Messages of a resolved slot are still queued after a later boundary passed.
C10_Witness ==
    /\ Len(resolved) >= 2
    /\ queued_messages # << >>
    /\ IsReady(next_slot, time)
    /\ SlotOf(time) > LastResolved.slot

\* ------------------------------------------------------------ C11
\* C11: the Generator holds one Sleep, in next_slot.  A poll_next arms at most
\* one Sleep, and only after it found the old one ready, read the slot and made
\* its five generator queries: the duration is the one the clock reported just
\* before, and the new Sleep replaces the old one with that deadline and no
\* waker.  No other step changes the deadline.
SleepCalls(log) == SelectSeq(log, LAMBDA c : c.op = "sleep")

IndexOf(log, op) == CHOOSE i \in 1..Len(log) : log[i].op = op

C11_SingleTimer ==
    /\ [](/\ Len(SleepCalls(calls)) <= 1
          /\ SleepCalls(calls) # << >> =>
               LET i == IndexOf(calls, "sleep")
               IN  /\ TimerObservedReady
                   /\ RealizedBoundary
                   /\ i > 1
                   /\ calls[i - 1].op = "duration_to_next_slot"
                   /\ calls[i - 1].ret = calls[i].duration
                   /\ Len(SlotQueries(SubSeq(calls, 1, i - 2))) = Len(DutyKinds))
    /\ [][next_slot'.deadline # next_slot.deadline =>
            /\ IsReady(next_slot, time)
            /\ SleepCalls(calls') # << >>
            /\ next_slot' = [deadline |-> time' + DurationToNextSlot(time'),
                             waker |-> FALSE]
            /\ SleepCalls(calls')[1].duration = DurationToNextSlot(time')]_vars
    /\ [][(PollNext /\ IsReady(next_slot, time) /\ FallsThrough
             /\ ret'.poll # "Panicked") =>
            next_slot'.deadline > time']_vars

\* A Sleep found ready late, in the middle of a slot, was replaced by one armed
\* for the rest of that slot.
C11_Witness ==
    /\ Len(resolved) >= 2
    /\ SleepCalls(calls) # << >>
    /\ SleepCalls(calls)[1].duration < SlotDuration
    /\ next_slot.deadline = (LastResolved.slot + 1) * SlotDuration
    /\ ~IsReady(next_slot, time)

\* ------------------------------------------------------------ C12
\* The last poll_next returned Pending after it found the queue empty and the
\* Sleep not ready, and did nothing else.
PendingOnSleep ==
    /\ ret.poll = "Pending"
    /\ calls = << [op |-> "next_slot.poll", ready |-> FALSE] >>

\* The last poll_next returned Pending after it found the Sleep ready, resolved
\* the slot, armed the new Sleep and woke its own task.
PendingOnResolution ==
    /\ ret.poll = "Pending"
    /\ RealizedBoundary
    /\ ~ClockFailed
    /\ calls[Len(calls)].op = "wake_by_ref"

\* C12 as stated: Pending is returned only by a poll_next that found the queue
\* empty and the Sleep not ready, and a poll_next that found the Sleep ready and
\* queued at least one message returns a Message.
C12_PendingOnlyWhenIdle ==
    /\ ret.poll = "Pending" => PendingOnSleep
    /\ (RealizedBoundary /\ ~ClockFailed /\ Batch # << >>) => ret.poll = "Ready"

\* C12, amended: Pending is returned either by a poll_next that found the queue
\* empty and the Sleep not ready, or by one that found the Sleep ready and
\* resolved the slot; the second always returns Pending, whatever it queued,
\* but leaves its own task woken, so that the poll_next that follows returns
\* the first queued message of the slot.  A poll_next on a non-empty queue never
\* returns Pending.
C12_PendingOnSleepOrResolution ==
    /\ [](ret.poll = "Pending" => (PendingOnSleep \/ PendingOnResolution))
    /\ [](PendingOnSleep => queued_messages = << >>)
    /\ [](PendingOnResolution => woken)
    /\ [][(PollNext /\ FallsThrough /\ IsReady(next_slot, time)
             /\ ret'.poll # "Panicked") =>
            /\ ret' = Pending
            /\ woken'
            /\ emitted' = << >>
            /\ queued_messages' = QueueSlotMsgs(<< >>, SlotOf(time)).queue]_vars
    /\ [][(PollNext /\ CanPoll /\ queued_messages # << >>) =>
            ret' = Ready(Head(queued_messages))]_vars

\* A resolution queued the seven messages of a slot and returned Pending with
\* the task woken.
C12_Witness ==
    /\ PendingOnResolution
    /\ Len(queued_messages) = 7
    /\ emitted = << >>
    /\ woken
    /\ ~next_slot.waker

\* ------------------------------------------------------------ C13
\* The last resolution queued nothing: all five answers were empty.
EmptyResolution ==
    /\ resolved # << >>
    /\ \A k \in DutyKindSet : ResolverOutput(k, LastResolved.slot) = << >>

\* C13: a caller left Pending always has a wake-up coming: its task is already
\* woken or the armed Sleep holds its waker.  A resolution with five empty
\* answers arms a new Sleep, wakes the task and returns Pending with an empty
\* queue; the executor's next poll then leaves the waker with the new Sleep (or
\* resolves the next boundary, if that has come), and with the clock advancing
\* one more boundary is resolved unless a clock query fails.
C13_EmptyBoundaryProgress ==
    /\ [](ret.poll = "Pending" => (woken \/ next_slot.waker))
    /\ [][(PollNext /\ FallsThrough /\ IsReady(next_slot, time)
             /\ ret'.poll # "Panicked" /\ EmptyResolution') =>
            /\ queued_messages' = << >>
            /\ ret' = Pending
            /\ woken'
            /\ next_slot' = Sleep(time', DurationToNextSlot(time'))]_vars
    /\ \A n \in 1..(MaxSlot + 1) :
         (Len(resolved) = n /\ EmptyResolution /\ PendingOnResolution)
           ~> (\/ (Len(resolved) = n /\ PendingOnSleep /\ next_slot.waker)
               \/ Len(resolved) > n
               \/ ret.poll = "Panicked")
    /\ \A n \in 1..(MaxSlot + 1) :
         (/\ Len(resolved) = n
          /\ EmptyResolution
          /\ ret.poll = "Pending"
          /\ time <= MaxTime - SlotDuration)
           ~> (Len(resolved) > n \/ ret.poll = "Panicked")

\* Two boundaries in a row had no duties: the second was still resolved, and
\* after it the task polled again at the same tick and left its waker with the
\* new Sleep.
C13_Witness ==
    /\ Len(resolved) >= 2
    /\ Duties(resolved[Len(resolved) - 1].slot) = EmptyDuties
    /\ EmptyResolution
    /\ PendingOnSleep
    /\ next_slot.waker
    /\ time = LastResolved.at

\* ------------------------------------------------------------ C14
\* C14: a poll_next that finds the queue empty and the Sleep not ready returns
\* Pending and leaves the caller's waker with the Sleep; its only call is the
\* poll of the Sleep: no clock query, no generator query, no new Sleep.  The
\* queue stays empty, the deadline, the clock, the history of resolutions and
\* the validators are unchanged; a second such poll changes nothing at all.
C14_IdlePoll ==
    /\ [][(PollNext /\ CanPoll /\ FallsThrough /\ ~IsReady(next_slot, time)) =>
            /\ ret' = Pending
            /\ next_slot' = [deadline |-> next_slot.deadline, waker |-> TRUE]
            /\ queued_messages' = << >>
            /\ calls' = << [op |-> "next_slot.poll", ready |-> FALSE] >>
            /\ time' = time
            /\ resolved' = resolved
            /\ invocations' = invocations
            /\ emitted' = emitted
            /\ validators' = validators
            /\ slot_generator' = slot_generator]_vars
    /\ [][(PollNext /\ PendingOnSleep /\ ~woken /\ next_slot.waker
             /\ ~IsReady(next_slot, time)) => UNCHANGED vars]_vars

\* The seven messages of a slot were returned, and the poll_next after them
\* found the queue empty and the Sleep not ready.
C14_Witness ==
    /\ PendingOnSleep
    /\ Len(emitted) = 7
    /\ queued_messages = << >>
    /\ next_slot.waker
    /\ ~woken
    /\ ~IsReady(next_slot, time)

\* ------------------------------------------------------------ C15
\* The most messages one resolution queues.
MaxBatch == Len(FullDuties.blocks) + Len(FullDuties.aggregates)
              + Len(FullDuties.attestations) + Len(FullDuties.sync_aggregates)
              + Len(FullDuties.sync_messages)

\* C15: while messages are queued, however many boundaries pass, no step
\* resolves a slot or touches the queue except a poll_next that returns its
\* front message and keeps the rest in order, so the messages of the last
\* resolution come out in the order they were queued, before any message of a
\* later slot; queue_slot_msgs itself only appends: applied to the queue as it
\* stands, for any slot, it keeps every queued message in place and puts the
\* slot's messages after them; and a caller polled when runnable receives the
\* front message unless a clock query has failed.
C15_NoDropNoReorder ==
    /\ [][queued_messages # << >> =>
            /\ resolved' = resolved
            /\ Batch' = Batch
            /\ \/ queued_messages' = queued_messages /\ emitted' = emitted
               \/ /\ queued_messages' = Tail(queued_messages)
                  /\ emitted' = Append(emitted, Head(queued_messages))
                  /\ ret' = Ready(Head(queued_messages))]_vars
    /\ [](\A s \in 0..MaxSlot :
            LET q == QueueSlotMsgs(queued_messages, s).queue
                n == Len(queued_messages)
            IN  /\ Len(q) >= n
                /\ SubSeq(q, 1, n) = queued_messages
                /\ SubSeq(q, n + 1, Len(q)) = QueueSlotMsgs(<< >>, s).queue
                /\ \A i \in (n + 1)..Len(q) : q[i].slot = s)
    /\ \A k \in 1..MaxBatch :
         (Len(queued_messages) = k /\ CanPoll)
           ~> (Len(queued_messages) = k - 1 /\ ret.poll = "Ready")

\* Two boundaries have passed since the last resolution; a message of that
\* slot was just returned and more of them are still queued, in order.
C15_Witness ==
    /\ ret.poll = "Ready"
    /\ ret.msg.slot = LastResolved.slot
    /\ SlotOf(time) >= LastResolved.slot + 2
    /\ Len(emitted) >= 2
    /\ Len(queued_messages) >= 2
    /\ Len(Batch) = MaxBatch

\* ------------------------------------------------------------ C16
\* C16: the Sleep is polled only by a poll_next that found the queue empty.
\* Every step that resolves a slot, makes any call to the Sleep, the clock or
\* the generator, or arms a new Sleep starts from an empty queue; a poll_next
\* on a non-empty queue makes no call and leaves the Sleep and the count of
\* generator queries as they were; so while messages are queued after the
\* deadline has passed, no slot from the deadline's on has been resolved (unless
\* the poll_next that resolved it panicked before arming the next Sleep), and a
\* resolution comes only after every message of the one before was returned.
C16_TimerPolledOnEmptyQueue ==
    /\ [][Len(resolved') # Len(resolved) => queued_messages = << >>]_vars
    /\ [][(PollNext /\ calls' # << >>) => queued_messages = << >>]_vars
    /\ [][next_slot'.deadline # next_slot.deadline => queued_messages = << >>]_vars
    /\ [][invocations' # invocations => queued_messages = << >>]_vars
    /\ [][(PollNext /\ queued_messages # << >>) =>
            /\ calls' = << >>
            /\ next_slot' = next_slot
            /\ resolved' = resolved
            /\ invocations' = invocations]_vars
    /\ [](CanPoll /\ queued_messages # << >> /\ IsReady(next_slot, time) =>
            \A s \in SlotOf(next_slot.deadline)..SlotOf(time) : s \notin ResolvedSlots)
    /\ [][(Len(resolved') # Len(resolved) /\ resolved # << >>) =>
            emitted = QueueSlotMsgs(<< >>, LastResolved.slot).queue]_vars

\* The deadline passed a whole slot ago while the last message of the resolved
\* slot is still queued: the polls since then returned messages and made no
\* call.
C16_Witness ==
    /\ Len(queued_messages) = 1
    /\ ret.poll = "Ready"
    /\ calls = << >>
    /\ time >= next_slot.deadline + SlotDuration
    /\ SlotOf(next_slot.deadline) \notin ResolvedSlots

\* ------------------------------------------------------------ C17
\* C17: with a clock whose slot never decreases and a Sleep that is ready only
\* from its deadline on, the slots of successive resolutions strictly increase:
\* no slot is resolved twice, each kind has been queried once per distinct
\* resolved slot, a returned message carries the greatest slot resolved so far,
\* and of two messages returned one after the other the second does not carry
\* the smaller slot.  Unless a clock query failed, the Sleep a resolution arms
\* has its deadline in a later slot than the one resolved.
C17_StrictlyIncreasingSlots ==
    /\ [](\A i, j \in 1..Len(resolved) :
            i < j => /\ resolved[i].slot < resolved[j].slot
                     /\ resolved[i].at < resolved[j].at)
    /\ [](Cardinality(ResolvedSlots) = Len(resolved))
    /\ [](\A k \in DutyKindSet : invocations[k] = Cardinality(ResolvedSlots))
    /\ [](ret.poll = "Ready" =>
            /\ ret.msg.slot = LastResolved.slot
            /\ \A s \in ResolvedSlots : s <= ret.msg.slot)
    /\ [][(ret.poll = "Ready" /\ ret'.poll = "Ready") =>
            ret.msg.slot <= ret'.msg.slot]_vars
    /\ [][Len(resolved') > Len(resolved) =>
            /\ \A s \in ResolvedSlots : s < resolved'[Len(resolved')].slot
            /\ \A m \in Range(Batch) : m.slot < resolved'[Len(resolved')].slot]_vars
    /\ [][(Len(resolved') > Len(resolved) /\ ret'.poll # "Panicked") =>
            /\ next_slot'.deadline > time'
            /\ SlotOf(next_slot'.deadline) > resolved'[Len(resolved')].slot]_vars

\* Slots 1, 2 and 3 were resolved in turn, and the seven messages of slot 3
\* have been returned.
C17_Witness ==
    /\ Len(resolved) = 3
    /\ \A i \in 1..3 : resolved[i].slot = i
    /\ ret.poll = "Ready"
    /\ Len(emitted) = MaxBatch
    /\ ret.msg.slot = 3

\* ------------------------------------------------------------ C18
\* The validators the Generator was built with.
BuiltWith == {"A", "B"}

\* C18: no step changes the validators: not a poll_next, whichever branch it
\* takes, not a resolution, not a time_since_last_slot call; they are the set
\* the Generator was built with, and every generator query of every resolution
\* is handed that set.
C18_ValidatorsFixed ==
    /\ [][validators' = validators]_vars
    /\ [](validators = BuiltWith)
    /\ [](\A c \in Range(SlotQueries(calls)) : c.validators = BuiltWith)
    /\ [][(PollNext \/ TimeSinceLastSlot) => validators' = BuiltWith]_vars
    /\ [][Len(resolved') > Len(resolved) =>
            /\ Len(SlotQueries(calls')) = Len(DutyKinds)
            /\ \A c \in Range(SlotQueries(calls')) : c.validators = validators]_vars

\* Three slots were resolved, messages returned and time_since_last_slot called:
\* the queries of the third resolution were handed the validators of the first.
C18_Witness ==
    /\ Len(resolved) = 3
    /\ RealizedBoundary
    /\ since.called
    /\ Len(SlotQueries(calls)) = Len(DutyKinds)
    /\ \A c \in Range(SlotQueries(calls)) : c.validators = BuiltWith
    /\ Len(queued_messages) = MaxBatch

\* ------------------------------------------------------------ C19
\* C19: time_since_last_slot returns the slot duration less what the clock
\* reported as the duration to the next slot, and zero when the clock reported
\* more than a slot, so the result is between zero and the slot duration; when
\* the clock reports no duration it returns the whole slot duration, and the
\* caller is not unwound; the call changes nothing of the Generator: not the
\* queue, not the Sleep, not what poll_next last returned.
C19_TimeSinceLastSlot ==
    /\ [](since.called =>
            /\ since.result \in 0..SlotDuration
            /\ since.reported = None => since.result = SlotDuration
            /\ since.reported \in 0..SlotDuration =>
                 since.result = SlotDuration - since.reported
            /\ since.reported > SlotDuration => since.result = 0)
    /\ [][since' # since =>
            /\ since'.called
            /\ queued_messages' = queued_messages
            /\ next_slot' = next_slot
            /\ ret' = ret
            /\ woken' = woken
            /\ calls' = calls
            /\ time' = time
            /\ resolved' = resolved
            /\ emitted' = emitted
            /\ invocations' = invocations]_vars

\* The clock reported more than a slot while messages were queued and the Sleep
\* was armed: the call returned zero.
C19_Witness ==
    /\ since.called
    /\ since.reported = SlotDuration + 1
    /\ since.result = 0
    /\ queued_messages # << >>
    /\ ret.poll = "Ready"

\* The clock reported no duration: the call returned the slot duration.
C19_WitnessFailure ==
    /\ since.called
    /\ since.reported = None
    /\ since.result = SlotDuration
    /\ ret.poll = "Pending"

====
